---- MODULE Spec2Model ----
(***************************************************************************)
(* State-machine model of the neural optimal-transport trainers            *)
(*   ott.neural.solvers.otfm.OTFlowMatching                                *)
(*   ott.neural.solvers.flow_matching.FlowMatching                         *)
(* Numerical values (arrays, parameters, couplings) are modelled as terms  *)
(* that record what they were computed from; PRNG keys are modelled as     *)
(* paths from the root key, random.split(key, n) giving the n children.    *)
(***************************************************************************)
EXTENDS Integers, Sequences, FiniteSets, TLC

\* ---------------------------------------------------------------- bounds
MaxIter == 3
MaxSetups == 1
MaxValidFreq == 2
BatchSize == 2

\* ------------------------------------------------------------- variables
VARIABLES
  cfg,        \* constructor arguments and the data the loaders yield
  pc,         \* position of the control flow in __call__
  iter,       \* loop variable `iter` of __call__
  rng,        \* self.rng
  rng_resample, rng_step_fn,   \* locals of __call__
  batch,      \* local `batch` of __call__
  tmat,       \* local `tmat` of __call__ (unbound until assigned)
  state_neural_vector_field, state_eta, state_xi,
  train_pos, valid_pos,        \* how many batches each loader has yielded
  trace,      \* operations executed by the current execution, in order
  consumed,   \* PRNG keys handed to a stochastic operation, in order
  saved,      \* calls received by checkpoint_manager.save
  error,      \* exception that ended __call__ ("none" when none)
  execution,  \* 1: first execution, 2: repeated with the same configuration
  first,      \* outcome of the first execution, kept for comparison
  rng_default,  \* the array the default of parameter `rng` refers to, made
              \* once when the class is defined and shared by every
              \* construction in the process
  api,        \* last call of save / load / training_logs and how it ended
  transports, \* calls of transport made on the solver, with their results
  sampler     \* a call of sample_uniformly: its arguments and what it returned

vars == <<cfg, pc, iter, rng, rng_resample, rng_step_fn, batch, tmat,
          state_neural_vector_field, state_eta, state_xi, train_pos,
          valid_pos, trace, consumed, saved, error, execution, first,
          rng_default, api, transports, sampler>>

\* ------------------------------------------------------------ PRNG keys
\* rng: random.PRNGKeyArray = random.PRNGKey(0)
Root == <<0>>
NoKey == <<>>

\* jax.random.split(key, n): n fresh keys, children of `key`
split(key, n) == [i \in 1..n |-> Append(key, i)]

\* ------------------------------------------------------------- terms
EmptyBatch == [pos |-> -1, hard |-> FALSE, rkey |-> NoKey, tpos |-> -1]

\* the train state of a rescaling sub-model that is not configured (None)
NoState == [present |-> FALSE, updates |-> <<>>]

\* the arguments of a matching call that has not been made
NoArgs == [source |-> -1, target |-> -1]

Unbound == [bound |-> FALSE, pos |-> -1, converged |-> FALSE, args |-> NoArgs]

\* next(train_loader): the p-th batch of the training sequence
train_next(p) ==
  [pos |-> p, hard |-> cfg.train_seq[p + 1], rkey |-> NoKey, tpos |-> -1]

\* faulty variant of match_args: the call also passes the rescaling states as
\* they stand, for the weights of the two marginals
match_args_weighted(b) ==
  [source |-> b.pos, target |-> b.pos,
   weights |-> [eta |-> state_eta, xi |-> state_xi]]

\* the arguments of self.match_fn(batch["source"], batch["target"]): two
\* positional arguments, both entries of the batch just drawn
match_args(b) == [source |-> b.pos, target |-> b.pos]

\* tmat = self.match_fn(...): the coupling the matcher returns for the
\* arguments it is called with, whether or not the solver converged on them;
\* the matcher is the one ResampleMixin._get_sinkhorn_match_fn returns
match_fn(args) ==
  [bound |-> TRUE, pos |-> args.source,
   converged |-> ~cfg.train_seq[args.source + 1], args |-> args]

\* self._resample_data(rng_resample, tmat, (source, condition), (target,))
resample_data(key, tm, b) ==
  [pos |-> b.pos, hard |-> b.hard, rkey |-> key, tpos |-> tm.pos]

\* the attribute state_neural_vector_field does not exist: FlowMatching.__init__
\* does not call setup()
NoTrainState == [init_key |-> NoKey, updates |-> <<>>]

\* neural_vector_field.create_train_state(self.rng, optimizer, input_dim)
create_train_state(key) == [init_key |-> key, updates |-> <<>>]

\* state_neural_vector_field.apply_gradients(grads=grads), the gradient being
\* that of loss_fn(params, t, noise, batch, keys_model)
apply_gradients(state, key_t, key_noise, keys_model, b) ==
  [init_key |-> state.init_key,
   updates |-> Append(state.updates,
                      [key_t |-> key_t, key_noise |-> key_noise,
                       keys_model |-> keys_model, batch |-> b])]

\* faulty variant of IterKeys: the root key is not replaced by the third sub-key
IterKeysStale(key) == [i \in 1..3 |-> IF i = 3 THEN key ELSE Append(key, i)]

\* rng_resample, rng_step_fn, self.rng = random.split(self.rng, 3)
IterKeys(key) == split(key, 3)

\* faulty variant of default_after: the third sub-key is written into the array
\* self.rng refers to, which is the array of the parameter default
default_after_inplace(default, key) == key

\* self.rng = <third sub-key>: the attribute is bound to the new array; the
\* array the parameter default refers to is not written
default_after(default, key) == default

\* key_noise, key_t, key_model = random.split(key, 3)
StepKeys(key) == split(key, 3)

\* keys_model = random.split(key_model, batch_size)
ModelKeys(key_model, batch_size) == split(key_model, batch_size)

\* keys handed to a stochastic operation by one call of step_fn:
\* time_sampler(key_t, ...), sample_noise(key_noise, ...), apply_fn(keys_model)
StepConsumes(key) ==
  LET ks == StepKeys(key)
      km == ModelKeys(ks[3], BatchSize)
  IN  <<[key |-> ks[2], op |-> "time"], [key |-> ks[1], op |-> "noise"]>>
      \o [i \in 1..BatchSize |-> [key |-> km[i], op |-> "model"]]

\* faulty variant of step_fn: the gradient is taken on the batch as it was
\* drawn, before resampling
step_fn_on_drawn(key, state, b) ==
  LET ks == StepKeys(key)
  IN  apply_gradients(state, ks[2], ks[1], ModelKeys(ks[3], BatchSize),
                      train_next(b.pos))

\* step_fn(key, state_neural_vector_field, batch): the new train state
step_fn(key, state, b) ==
  LET ks == StepKeys(key)
  IN  apply_gradients(state, ks[2], ks[1], ModelKeys(ks[3], BatchSize), b)

\* ----------------------------------------------------- rescaling (mixin)
\* rescaling train state of a configured sub-model, None otherwise
rescaling_state(configured) == [present |-> configured, updates |-> <<>>]

\* unbalancedness_step_fn(batch, a, b): one update of a rescaling state with
\* the marginals a = tmat.sum(axis=1), b = tmat.sum(axis=0)
unbalancedness_step(state, b, tm) ==
  IF state.present
  THEN [present |-> TRUE,
        updates |-> Append(state.updates, [batch |-> b, tmat |-> tm])]
  ELSE state

\* ------------------------------------------------- attributes of `self`
\* attributes assigned by OTFlowMatching.__init__ and setup
OwnAttributes ==
  {"neural_vector_field", "input_dim", "ot_solver", "flow", "time_sampler",
   "optimizer", "epsilon", "cost_fn", "callback_fn", "checkpoint_manager",
   "rng", "state_neural_vector_field", "step_fn", "match_fn"}

\* attributes provided by BaseNeuralSolver, ResampleMixin, UnbalancednessMixin
MixinAttributes ==
  {"iterations", "valid_freq", "tau_a", "tau_b", "mlp_eta", "mlp_xi",
   "state_eta", "state_xi", "scale_cost", "unbalancedness_step_fn",
   "unbalanced_kwargs"}

\* attributes assigned by FlowMatching.__init__, which stores `seed`, not
\* `rng`, and does not call setup()
FMOwnAttributes ==
  {"neural_vector_field", "input_dim", "ot_solver", "flow", "optimizer",
   "epsilon", "cost_fn", "callback_fn", "checkpoint_manager", "seed"}

\* the three methods OTFlowMatching defines at lines 222-229; FlowMatching
\* defines none of them
OwnMethods == {"save", "load", "training_logs"}

hasattr(name) ==
  name \in (IF cfg.trainer = "OTFlowMatching"
            THEN OwnAttributes \cup OwnMethods
            ELSE FMOwnAttributes) \cup MixinAttributes

\* @property learn_rescaling
learn_rescaling == cfg.mlp_eta \/ cfg.mlp_xi

\* match_pairs(x, y) takes two positional arguments; FlowMatching calls
\* self.match_fn(batch) with one
MatchPairsArity == 2
FMMatchArgs == 1

\* --------------------------------------------------------- configuration
Trainers == {"OTFlowMatching", "FlowMatching"}

ConfigSpace ==
  [trainer : Trainers,
   iterations : 0..MaxIter,
   valid_freq : 1..MaxValidFreq,
   ot_solver : BOOLEAN,            \* FALSE: ot_solver is None
   mlp_eta : BOOLEAN,              \* FALSE: mlp_eta is None
   mlp_xi : BOOLEAN,
   checkpoint_manager : BOOLEAN,   \* FALSE: checkpoint_manager is None
   callback_fn : BOOLEAN,          \* FALSE: callback_fn is None
   train_seq : [1..MaxIter -> BOOLEAN]]  \* batch p+1 is hard for the OT solver

\* sample_uniformly has not been called
NoSample == [called |-> FALSE, num_samples |-> 0, low |-> 0, high |-> 0,
             offset |-> [none |-> TRUE, value |-> 0], bits |-> <<>>,
             out |-> <<>>]

NoCall == [fn |-> "none", arg |-> "none", outcome |-> "none"]

NotRun == [set |-> FALSE, state |-> create_train_state(Root), rng |-> Root,
           error |-> "none", steps |-> 0, consumed |-> <<>>]

\* what the constructor leaves in state_neural_vector_field and how many keys
\* it has consumed: OTFlowMatching.__init__ ends with setup(),
\* FlowMatching.__init__ does not
ConstructedTrainState ==
  IF cfg.trainer = "OTFlowMatching"
  THEN create_train_state(rng_default) ELSE NoTrainState

ConstructedConsumed ==
  IF cfg.trainer = "OTFlowMatching"
  THEN <<[key |-> rng_default, op |-> "init"]>> ELSE <<>>

\* the state after the constructor
Constructed ==
  /\ pc = "idle"
  /\ iter = 0
  /\ rng = rng_default
  /\ rng_resample = NoKey
  /\ rng_step_fn = NoKey
  /\ batch = EmptyBatch
  /\ tmat = Unbound
  /\ state_neural_vector_field = ConstructedTrainState
  /\ state_eta = rescaling_state(cfg.mlp_eta)
  /\ state_xi = rescaling_state(cfg.mlp_xi)
  /\ train_pos = 0
  /\ valid_pos = 0
  /\ trace = <<>>
  /\ consumed = ConstructedConsumed
  /\ saved = <<>>
  /\ error = "none"

Init ==
  /\ cfg \in ConfigSpace
  /\ rng_default = Root
  /\ Constructed
  /\ execution = 1
  /\ first = NotRun
  /\ api = NoCall
  /\ transports = <<>>
  /\ sampler = NoSample

Event(op) == [op |-> op, iter |-> iter]

Raise(exc) ==
  /\ pc' = "raised"
  /\ error' = exc

\* __call__ has returned or raised
Ended == pc \in {"done", "raised"}

\* ------------------------------------------- OTFlowMatching.__call__
IsOTFM == cfg.trainer = "OTFlowMatching"

\* def __call__(self, train_loader, valid_loader): batch = {}
Call ==
  /\ pc = "idle"
  /\ pc' = "loop"
  /\ iter' = 0
  /\ batch' = EmptyBatch
  /\ tmat' = Unbound
  /\ UNCHANGED <<cfg, rng, rng_resample, rng_step_fn,
                 state_neural_vector_field, state_eta, state_xi, train_pos,
                 valid_pos, trace, consumed, saved, error, execution, first,
                 rng_default, api,
                 transports, sampler>>

\* for iter in range(self.iterations): split self.rng, next(train_loader)
IterBegin ==
  /\ pc = "loop"
  /\ IsOTFM
  /\ iter < cfg.iterations
  /\ LET ks == IterKeys(rng)
     IN  /\ rng_resample' = ks[1]
         /\ rng_step_fn' = ks[2]
         /\ rng' = ks[3]
         /\ rng_default' = default_after(rng_default, ks[3])
  /\ batch' = train_next(train_pos)
  /\ train_pos' = train_pos + 1
  /\ trace' = Append(trace, Event("train_draw"))
  /\ pc' = "match"
  /\ UNCHANGED <<cfg, iter, tmat, state_neural_vector_field, state_eta,
                 state_xi, valid_pos, consumed, saved, error, execution,
                 first, api,
                 transports, sampler>>

\* range(self.iterations) is exhausted: __call__ returns
LoopExit ==
  /\ pc = "loop"
  /\ iter >= cfg.iterations
  /\ pc' = "done"
  /\ UNCHANGED <<cfg, iter, rng, rng_resample, rng_step_fn, batch, tmat,
                 state_neural_vector_field, state_eta, state_xi, train_pos,
                 valid_pos, trace, consumed, saved, error, execution, first,
                 rng_default, api,
                 transports, sampler>>

\* if self.ot_solver is not None: tmat = self.match_fn(source, target)
Match ==
  /\ pc = "match"
  /\ IsOTFM
  /\ IF cfg.ot_solver
     THEN /\ tmat' = match_fn(match_args(batch))
          /\ trace' = Append(trace, Event("match"))
          /\ pc' = "resample"
     ELSE /\ pc' = "step"
          /\ UNCHANGED <<tmat, trace>>
  /\ UNCHANGED <<cfg, iter, rng, rng_resample, rng_step_fn, batch,
                 state_neural_vector_field, state_eta, state_xi, train_pos,
                 valid_pos, consumed, saved, error, execution, first,
                 rng_default, api,
                 transports, sampler>>

\* (source, condition), (target,) = self._resample_data(rng_resample, tmat, ..)
Resample ==
  /\ pc = "resample"
  /\ batch' = resample_data(rng_resample, tmat, batch)
  /\ consumed' = Append(consumed, [key |-> rng_resample, op |-> "resample"])
  /\ trace' = Append(trace, Event("resample"))
  /\ pc' = "step"
  /\ UNCHANGED <<cfg, iter, rng, rng_resample, rng_step_fn, tmat,
                 state_neural_vector_field, state_eta, state_xi, train_pos,
                 valid_pos, saved, error, execution, first, rng_default, api,
                 transports, sampler>>

\* self.state_neural_vector_field, loss = self.step_fn(rng_step_fn, ..., batch)
StepFn ==
  /\ pc = "step"
  /\ state_neural_vector_field' =
       step_fn(rng_step_fn, state_neural_vector_field, batch)
  /\ consumed' = consumed \o StepConsumes(rng_step_fn)
  /\ trace' = Append(trace, Event("grad"))
  /\ pc' = "rescale"
  /\ UNCHANGED <<cfg, iter, rng, rng_resample, rng_step_fn, batch, tmat,
                 state_eta, state_xi, train_pos, valid_pos, saved, error,
                 execution, first, rng_default, api,
                 transports, sampler>>

\* if self.learn_rescaling: self.state_eta, self.state_xi, ... =
\*   self.unbalancedness_step_fn(batch, tmat.sum(axis=1), tmat.sum(axis=0))
\* reading the unbound local tmat raises UnboundLocalError
Rescale ==
  /\ pc = "rescale"
  /\ IF ~learn_rescaling
     THEN /\ pc' = "valid"
          /\ UNCHANGED <<state_eta, state_xi, trace, error>>
     ELSE IF ~tmat.bound
     THEN /\ Raise("UnboundLocalError")
          /\ UNCHANGED <<state_eta, state_xi, trace>>
     ELSE /\ state_eta' = unbalancedness_step(state_eta, batch, tmat)
          /\ state_xi' = unbalancedness_step(state_xi, batch, tmat)
          /\ trace' = Append(trace, Event("rescale"))
          /\ pc' = "valid"
          /\ UNCHANGED error
  /\ UNCHANGED <<cfg, iter, rng, rng_resample, rng_step_fn, batch, tmat,
                 state_neural_vector_field, train_pos, valid_pos, consumed,
                 saved, execution, first, rng_default, api,
                 transports, sampler>>

\* OTFlowMatching._valid_step: next(valid_loader), nothing else
valid_step_events == <<Event("valid_draw"), Event("valid_return")>>

\* faulty variant of valid_step: validation draws from the solver's key
valid_step_splitting(st, vpos) ==
  [st |-> [st EXCEPT !.rng = split(st.rng, 2)[2]], valid_pos |-> vpos + 1]

\* _valid_step(valid_loader, iter) as a function of what it can reach: the
\* attributes of the solver and the validation loader; it advances the loader
valid_step(st, vpos) == [st |-> st, valid_pos |-> vpos + 1]

\* if iter % self.valid_freq == 0: self._valid_step(valid_loader, iter)
ValidStep ==
  /\ pc = "valid"
  /\ IF iter % cfg.valid_freq = 0
     THEN LET r == valid_step([nvf |-> state_neural_vector_field,
                               eta |-> state_eta, xi |-> state_xi,
                               rng |-> rng], valid_pos)
          IN  /\ valid_pos' = r.valid_pos
              /\ state_neural_vector_field' = r.st.nvf
              /\ state_eta' = r.st.eta
              /\ state_xi' = r.st.xi
              /\ rng' = r.st.rng
              /\ trace' = trace \o valid_step_events
              /\ pc' = "ckpt"
              /\ UNCHANGED iter
     ELSE /\ iter' = iter + 1
          /\ pc' = "loop"
          /\ UNCHANGED <<valid_pos, trace, rng, state_neural_vector_field,
                         state_eta, state_xi>>
  /\ UNCHANGED <<cfg, rng_resample, rng_step_fn, batch, tmat, train_pos,
                 consumed, saved, error, execution, first, rng_default, api,
                 transports, sampler>>

\* if self.checkpoint_manager is not None: build states_to_save and save it;
\* the test `self.state_mlp is not None` reads an attribute nothing assigns
Checkpoint ==
  /\ pc = "ckpt"
  /\ IF ~cfg.checkpoint_manager
     THEN /\ iter' = iter + 1
          /\ pc' = "loop"
          /\ UNCHANGED <<saved, trace, error>>
     ELSE IF ~hasattr("state_mlp")
     THEN /\ Raise("AttributeError")
          /\ UNCHANGED <<iter, saved, trace>>
     ELSE /\ saved' = Append(saved,
                 [step |-> iter,
                  state_neural_vector_field |-> state_neural_vector_field,
                  state_eta |-> NoState,
                  state_xi |-> state_xi])
          /\ trace' = Append(trace, Event("save"))
          /\ iter' = iter + 1
          /\ pc' = "loop"
          /\ UNCHANGED error
  /\ UNCHANGED <<cfg, rng, rng_resample, rng_step_fn, batch, tmat,
                 state_neural_vector_field, state_eta, state_xi, train_pos,
                 valid_pos, consumed, execution, first, rng_default, api,
                 transports, sampler>>

\* ---------------------------------------------- FlowMatching.__call__
\* for iter in range(self.iterations): next(train_loader)
FMIterBegin ==
  /\ pc = "loop"
  /\ ~IsOTFM
  /\ iter < cfg.iterations
  /\ batch' = train_next(train_pos)
  /\ train_pos' = train_pos + 1
  /\ trace' = Append(trace, Event("train_draw"))
  /\ pc' = "match"
  /\ UNCHANGED <<cfg, iter, rng, rng_resample, rng_step_fn, tmat,
                 state_neural_vector_field, state_eta, state_xi, valid_pos,
                 consumed, saved, error, execution, first, rng_default, api,
                 transports, sampler>>

\* tmat = self.match_fn(batch): the attribute match_fn is assigned by setup()
\* only, so the lookup raises AttributeError; were it there, match_pairs(x, y)
\* called with one argument would raise TypeError
FMMatch ==
  /\ pc = "match"
  /\ ~IsOTFM
  /\ IF ~hasattr("match_fn")
     THEN /\ Raise("AttributeError")
          /\ UNCHANGED <<tmat, trace>>
     ELSE IF FMMatchArgs # MatchPairsArity
     THEN /\ Raise("TypeError")
          /\ UNCHANGED <<tmat, trace>>
     ELSE /\ tmat' = match_fn(match_args(batch))
          /\ trace' = Append(trace, Event("match"))
          /\ pc' = "fm_resample"
          /\ UNCHANGED error
  /\ UNCHANGED <<cfg, iter, rng, rng_resample, rng_step_fn, batch,
                 state_neural_vector_field, state_eta, state_xi, train_pos,
                 valid_pos, consumed, saved, execution, first, rng_default, api,
                 transports, sampler>>

\* FlowMatching._valid_step(valid_loader, iter), called on the solver:
\* batch = next(valid_loader); batch, a, b = self.match_fn(batch) raises
\* AttributeError before `if self.callback_fn is not None: self.callback_fn(..)`
FMValidStep ==
  /\ pc = "idle"
  /\ ~IsOTFM
  /\ valid_pos' = valid_pos + 1
  /\ IF ~hasattr("match_fn")
     THEN /\ trace' = Append(trace, Event("valid_draw"))
          /\ Raise("AttributeError")
     ELSE IF FMMatchArgs # MatchPairsArity
     THEN /\ trace' = Append(trace, Event("valid_draw"))
          /\ Raise("TypeError")
     ELSE /\ trace' = trace \o
               (<<Event("valid_draw"), Event("match")>> \o
                (IF cfg.callback_fn THEN <<Event("callback")>> ELSE <<>>) \o
                <<Event("valid_return")>>)
          /\ UNCHANGED <<pc, error>>
  /\ UNCHANGED <<cfg, iter, rng, rng_resample, rng_step_fn, batch, tmat,
                 state_neural_vector_field, state_eta, state_xi, train_pos,
                 consumed, saved, execution, first, rng_default, api,
                 transports, sampler>>

\* ---------------------------------------------------------- setup()
\* calls of setup() made after the constructor
Setups ==
  Len(SelectSeq(consumed, LAMBDA c : c.op = "init")) - Len(ConstructedConsumed)

\* OTFlowMatching.setup(), a public method, called on a solver whose __call__
\* has ended: state_neural_vector_field is created again from the current
\* self.rng; step_fn and match_fn are rebuilt
Setup ==
  /\ IsOTFM
  /\ Ended
  /\ Setups < MaxSetups
  /\ state_neural_vector_field' = create_train_state(rng)
  /\ consumed' = Append(consumed, [key |-> rng, op |-> "init"])
  /\ UNCHANGED <<cfg, pc, iter, rng, rng_resample, rng_step_fn, batch, tmat,
                 state_eta, state_xi, train_pos, valid_pos, trace, saved,
                 error, execution, first, rng_default, api, transports, sampler>>

\* FlowMatching.setup(), called on the constructed solver: create_train_state
\* is to be given self.rng, an attribute FlowMatching never assigns, so the
\* call raises AttributeError before anything is assigned
FMSetup ==
  /\ ~IsOTFM
  /\ pc = "idle"
  /\ IF hasattr("rng")
     THEN /\ state_neural_vector_field' = create_train_state(rng)
          /\ consumed' = Append(consumed, [key |-> rng, op |-> "init"])
          /\ UNCHANGED <<pc, error>>
     ELSE /\ Raise("AttributeError")
          /\ UNCHANGED <<state_neural_vector_field, consumed>>
  /\ UNCHANGED <<cfg, iter, rng, rng_resample, rng_step_fn, batch, tmat,
                 state_eta, state_xi, train_pos, valid_pos, trace, saved,
                 execution, first, rng_default, api, transports, sampler>>

\* ------------------------------------------------ a second execution
GradSteps == Len(SelectSeq(trace, LAMBDA e : e.op = "grad"))

\* the same configuration is constructed and run again in the process the
\* first execution has run in: the constructor takes its root key from the
\* array of the parameter default as the first execution left it, and the
\* loaders are new iterators over the same sequences
Rerun ==
  /\ pc \in {"done", "raised"}
  /\ execution = 1
  /\ Setups = 0
  /\ first' = [set |-> TRUE, state |-> state_neural_vector_field,
               rng |-> rng, error |-> error, steps |-> GradSteps,
               consumed |-> consumed]
  /\ execution' = 2
  /\ rng_default' = rng_default
  /\ cfg' = cfg
  /\ pc' = "idle"
  /\ iter' = 0
  /\ rng' = rng_default
  /\ rng_resample' = NoKey
  /\ rng_step_fn' = NoKey
  /\ batch' = EmptyBatch
  /\ tmat' = Unbound
  /\ state_neural_vector_field' = ConstructedTrainState
  /\ state_eta' = rescaling_state(cfg.mlp_eta)
  /\ state_xi' = rescaling_state(cfg.mlp_xi)
  /\ train_pos' = 0
  /\ valid_pos' = 0
  /\ trace' = <<>>
  /\ consumed' = ConstructedConsumed
  /\ saved' = <<>>
  /\ error' = "none"
  /\ api' = NoCall
  /\ transports' = <<>>
  /\ sampler' = sampler


\* --------------------------------- save / load / training_logs
Paths == {"", "ckpt"}

\* what a call can change: the model states and the root key
SolverState ==
  [nvf |-> state_neural_vector_field, eta |-> state_eta, xi |-> state_xi,
   rng |-> rng]

\* faulty variant of save: a silent no-op that returns normally
save_noop(path, st) == [outcome |-> "returned", st |-> st]

\* def save(self, path): raise NotImplementedError
save(path, st) == [outcome |-> "NotImplementedError", st |-> st]

\* def load(self, path): raise NotImplementedError
load(path, st) == [outcome |-> "NotImplementedError", st |-> st]

\* def training_logs(self): raise NotImplementedError
training_logs(st) == [outcome |-> "NotImplementedError", st |-> st]

\* a call of one of the three methods on the solver, between two calls of
\* __call__; r is what the method did. On a solver whose class does not
\* define the method the attribute lookup raises AttributeError
ApiCall(fn, arg, r) ==
  /\ Ended
  /\ IF hasattr(fn)
     THEN /\ api' = [fn |-> fn, arg |-> arg, outcome |-> r.outcome]
          /\ state_neural_vector_field' = r.st.nvf
          /\ state_eta' = r.st.eta
          /\ state_xi' = r.st.xi
          /\ rng' = r.st.rng
     ELSE /\ api' = [fn |-> fn, arg |-> arg, outcome |-> "AttributeError"]
          /\ UNCHANGED <<state_neural_vector_field, state_eta, state_xi, rng>>
  /\ UNCHANGED <<cfg, pc, iter, rng_resample, rng_step_fn, batch, tmat,
                 train_pos, valid_pos, trace, consumed, saved, error,
                 execution, first, rng_default, transports, sampler>>

Save == \E path \in Paths : ApiCall("save", path, save(path, SolverState))

Load == \E path \in Paths : ApiCall("load", path, load(path, SolverState))

TrainingLogs == ApiCall("training_logs", "none", training_logs(SolverState))

\* ------------------------------------------ OTFlowMatching.transport
NumSamples == 2
Points == {"x", "y"}
Conds == {"c", "d"}

\* condition=None: every sample is solved with cond = None
CondNone == [i \in 1..NumSamples |-> "None"]

Conditions == {CondNone} \cup [1..NumSamples -> Conds]

\* diffeqsolve_kwargs, a mapping given as a set of <<name, value>> pairs
KwargsSpace ==
  {{},
   {<<"solver", "Dopri5">>, <<"max_steps", "16">>},
   {<<"dt0", "0.1">>, <<"stepsize_controller", "ConstantStepSize">>}}

\* faulty variant of dict: the caller's mapping itself is used, not a copy
dict_alias(d) == [entries |-> d, own |-> FALSE]

\* diffeqsolve_kwargs = dict(diffeqsolve_kwargs): a new mapping object with the
\* same entries, owned by the call
dict(d) == [entries |-> d, own |-> TRUE]

\* the three names solve_ode pops from the mapping
PoppedNames == {"solver", "dt0", "stepsize_controller"}

\* d.pop(name, default): the value popped
popped(d, name, default) ==
  IF \E e \in d : e[1] = name
  THEN (CHOOSE e \in d : e[1] = name)[2]
  ELSE default

\* d.pop(name, default): the mapping left
without(d, name) == {e \in d : e[1] # name}

\* faulty variant of time_bounds: the direction flag is ignored
time_bounds_forward(forward) == <<0, 1>>

\* t0, t1 = (0.0, 1.0) if forward else (1.0, 0.0)
time_bounds(forward) == IF forward THEN <<0, 1>> ELSE <<1, 0>>

\* faulty variant of vmap_arg: every sample is solved from the first row of the batch
vmap_arg_first(xs, i) == xs[1]

\* jax.vmap(solve_ode)(data, condition): the i-th call gets the i-th row
vmap_arg(xs, i) == xs[i]

\* solve_ode(input, cond): the diffeqsolve call whose terminal state ys[0] is
\* returned; the vector field is the one of state_neural_vector_field
solve_ode(input, cond, t, kwargs) ==
  LET solver == popped(kwargs, "solver", "Tsit5")
      d1 == without(kwargs, "solver")
      dt0 == popped(d1, "dt0", "None")
      d2 == without(d1, "dt0")
      ctrl == popped(d2, "stepsize_controller", "PIDController(1e-5, 1e-5)")
      d3 == without(d2, "stepsize_controller")
  IN  [params |-> state_neural_vector_field, solver |-> solver,
       t0 |-> t[1], t1 |-> t[2], dt0 |-> dt0, y0 |-> input, cond |-> cond,
       stepsize_controller |-> ctrl, kwargs |-> d3]

\* transport(data, condition, forward, diffeqsolve_kwargs)
transport(data, condition, forward, diffeqsolve_kwargs) ==
  LET kwargs == dict(diffeqsolve_kwargs).entries
      t == time_bounds(forward)
  IN  [i \in 1..Len(data) |->
         solve_ode(vmap_arg(data, i), vmap_arg(condition, i), t, kwargs)]

\* the caller's mapping once transport has returned: the pops of solve_ode
\* act on the mapping object bound to the local name diffeqsolve_kwargs
kwargs_after(diffeqsolve_kwargs) ==
  IF dict(diffeqsolve_kwargs).own
  THEN diffeqsolve_kwargs
  ELSE without(without(without(diffeqsolve_kwargs, "solver"), "dt0"),
               "stepsize_controller")

TransportCall(data, condition, forward, kw) ==
  [data |-> data, condition |-> condition, forward |-> forward,
   kwargs |-> kw, result |-> transport(data, condition, forward, kw),
   kwargs_after |-> kwargs_after(kw)]

\* a call of transport after __call__ has returned or raised
Transport ==
  /\ IsOTFM
  /\ Ended
  /\ transports = <<>>
  /\ \E data \in [1..NumSamples -> Points], condition \in Conditions,
        forward \in BOOLEAN, kw \in KwargsSpace :
       transports' = <<TransportCall(data, condition, forward, kw)>>
  /\ UNCHANGED <<cfg, pc, iter, rng, rng_resample, rng_step_fn, batch, tmat,
                 state_neural_vector_field, state_eta, state_xi, train_pos,
                 valid_pos, trace, consumed, saved, error, execution, first,
                 rng_default, api, sampler>>

\* a second call of transport, given the same mapping object as the first:
\* the same batch with one sample (and its condition) replaced, in either
\* direction
TransportAgain ==
  /\ IsOTFM
  /\ Ended
  /\ Len(transports) = 1
  /\ LET c1 == transports[1]
     IN  \E j \in 1..NumSamples, x \in Points, forward \in BOOLEAN,
            c \in (IF c1.condition = CondNone THEN {"None"} ELSE Conds) :
           transports' =
             Append(transports,
                    TransportCall([c1.data EXCEPT ![j] = x],
                                  [c1.condition EXCEPT ![j] = c],
                                  forward, c1.kwargs_after))
  /\ UNCHANGED <<cfg, pc, iter, rng, rng_resample, rng_step_fn, batch, tmat,
                 state_neural_vector_field, state_eta, state_xi, train_pos,
                 valid_pos, trace, consumed, saved, error, execution, first,
                 rng_default, api, sampler>>

Next ==
  \/ Call
  \/ IterBegin
  \/ LoopExit
  \/ Match
  \/ Resample
  \/ StepFn
  \/ Rescale
  \/ ValidStep
  \/ Checkpoint
  \/ FMIterBegin
  \/ FMMatch
  \/ FMValidStep
  \/ Setup
  \/ FMSetup
  \/ Rerun
  \/ Save
  \/ Load
  \/ TrainingLogs

Spec == Init /\ [][Next]_vars

\* ---------------------------------------------- training, then inference
InferMaxIter == 1

InferenceConfigs ==
  {c \in ConfigSpace :
     /\ c.trainer = "OTFlowMatching"
     /\ c.iterations <= InferMaxIter
     /\ c.valid_freq = 1
     /\ ~c.mlp_xi
     /\ ~c.callback_fn
     /\ \A p \in 1..MaxIter : ~c.train_seq[p]}

InitInference ==
  /\ cfg \in InferenceConfigs
  /\ rng_default = Root
  /\ Constructed
  /\ execution = 1
  /\ first = NotRun
  /\ api = NoCall
  /\ transports = <<>>
  /\ sampler = NoSample

NextInference ==
  \/ Call
  \/ IterBegin
  \/ LoopExit
  \/ Match
  \/ Resample
  \/ StepFn
  \/ Rescale
  \/ ValidStep
  \/ Checkpoint
  \/ Transport
  \/ TransportAgain

SpecInference == InitInference /\ [][NextInference]_vars

\* ------------------------------------------------------ sample_uniformly
\* Times are exact rationals, written as integers in units of 1 / One.
MaxSamples == 3

\* number of values jax.random.uniform can return on [0, 1)
Resolution == 4

RECURSIVE Factorial(_)
Factorial(n) == IF n <= 1 THEN 1 ELSE n * Factorial(n - 1)

\* the integer that stands for 1.0: k / num_samples and every uniform value
\* are whole numbers of units
One == Resolution * Factorial(MaxSamples)

\* low and high, in whole numbers
Lows == {-1, 0, 1}
Widths == {1, 2}

\* offsets, in units: 0.0, the smallest positive value and 0.5
Offsets == {0, 1, One \div 2}

\* jax.random.uniform(rng, shape, minval, maxval) for one entry whose random
\* bits are `bits`: minval + u * (maxval - minval) with u = bits / Resolution
uniform(bits, minval, maxval) ==
  minval + (bits * (maxval - minval)) \div Resolution

\* jnp.arange(num_samples)[:, None] / num_samples, entry k (counted from 0)
arange_over(k, num_samples) == (k * One) \div num_samples

\* faulty variant of stratify: every sample is the single draw itself
stratify_flat(draw, k, num_samples, modulus) == draw % modulus

\* (draw + k / num_samples) % modulus
stratify(draw, k, num_samples, modulus) ==
  (draw + arange_over(k, num_samples)) % modulus

\* sample_uniformly(rng, num_samples, low, high, offset); bits are the random
\* bits of rng, one entry per value drawn
sample_uniformly(bits, num_samples, low, high, offset) ==
  IF offset.none
  THEN [k \in 1..num_samples |-> uniform(bits[k], low, high)]
  ELSE [k \in 1..num_samples |->
          stratify(uniform(bits[1], low, high), k - 1, num_samples,
                   (high - low) - offset.value)]

\* number of values drawn from rng by one call
Draws(num_samples, offset) == IF offset.none THEN num_samples ELSE 1

SamplerInputs ==
  {x \in [called : {FALSE}, num_samples : 1..MaxSamples,
          low : {l * One : l \in Lows},
          high : {h * One : h \in -1..3},
          offset : {[none |-> TRUE, value |-> 0]} \cup
                   {[none |-> FALSE, value |-> o] : o \in Offsets},
          bits : UNION {[1..n -> 0..(Resolution - 1)] : n \in 1..MaxSamples},
          out : {<<>>}] :
     /\ (x.high - x.low) \in {w * One : w \in Widths}
     /\ Len(x.bits) = Draws(x.num_samples, x.offset)}

\* only the sampler is exercised: the solver stays as constructed
InitSampler ==
  /\ cfg = [trainer |-> "OTFlowMatching", iterations |-> 0, valid_freq |-> 1,
            ot_solver |-> FALSE, mlp_eta |-> FALSE, mlp_xi |-> FALSE,
            checkpoint_manager |-> FALSE, callback_fn |-> FALSE,
            train_seq |-> [p \in 1..MaxIter |-> FALSE]]
  /\ rng_default = Root
  /\ Constructed
  /\ execution = 1
  /\ first = NotRun
  /\ api = NoCall
  /\ transports = <<>>
  /\ sampler \in SamplerInputs

\* the call sample_uniformly(rng, num_samples, low, high, offset)
SampleUniformly ==
  /\ ~sampler.called
  /\ sampler' = [sampler EXCEPT
                   !.called = TRUE,
                   !.out = sample_uniformly(sampler.bits, sampler.num_samples,
                                            sampler.low, sampler.high,
                                            sampler.offset)]
  /\ UNCHANGED <<cfg, pc, iter, rng, rng_resample, rng_step_fn, batch, tmat,
                 state_neural_vector_field, state_eta, state_xi, train_pos,
                 valid_pos, trace, consumed, saved, error, execution, first,
                 rng_default, api, transports>>

NextSampler == SampleUniformly

SpecSampler == InitSampler /\ [][NextSampler]_vars

\* ====================================================== properties
Count(op) == Len(SelectSeq(trace, LAMBDA e : e.op = op))

CountAt(op, i) == Len(SelectSeq(trace, LAMBDA e : e.op = op /\ e.iter = i))

\* iteration i has left the body of the loop (or the call has ended)
Past(i) == iter > i \/ Ended

IsPrefix(p, k) == Len(p) <= Len(k) /\ SubSeq(k, 1, Len(p)) = p

\* C1: for every iterations >= 0 and valid_freq >= 1 __call__ ends after
\* exactly `iterations` training steps, one batch drawn from train_loader and
\* one gradient update per step, and no execution stops earlier or runs longer.
C1_ExactlyIterationsSteps ==
  IsOTFM =>
    /\ Count("grad") <= cfg.iterations
    /\ Count("train_draw") = train_pos
    /\ Setups = 0 => Count("grad") = Len(state_neural_vector_field.updates)
    /\ Ended => /\ pc = "done"
                /\ Count("train_draw") = cfg.iterations
                /\ Count("grad") = cfg.iterations

\* What does hold for C1: an execution that returns has taken exactly
\* `iterations` steps, each with one batch and one gradient update.
Lemma_ReturnedRunsTakeAllSteps ==
  (IsOTFM /\ pc = "done") =>
    /\ Count("train_draw") = cfg.iterations
    /\ Count("grad") = cfg.iterations
    /\ train_pos = cfg.iterations
    /\ \A i \in 0..(cfg.iterations - 1) :
         CountAt("train_draw", i) = 1 /\ CountAt("grad", i) = 1

\* C2: a validation step runs on iteration i exactly when i mod valid_freq = 0,
\* each validation step draws exactly one batch from valid_loader, and no
\* validation batch is drawn on any other iteration.
C2_ValidationEveryValidFreq ==
  IsOTFM =>
    /\ valid_pos = Count("valid_draw")
    /\ \A i \in 0..(cfg.iterations - 1) :
         (CountAt("train_draw", i) = 1 /\ Past(i)) =>
           CountAt("valid_draw", i) = (IF i % cfg.valid_freq = 0 THEN 1 ELSE 0)

\* What does hold for C2: validation batches are drawn only on iterations
\* with i mod valid_freq = 0, at most one each, and every such iteration that
\* reaches line 168 draws one.
Lemma_ValidationOnlyOnSchedule ==
  IsOTFM =>
    /\ valid_pos = Count("valid_draw")
    /\ \A k \in 1..Len(trace) :
         trace[k].op = "valid_draw" =>
           /\ trace[k].iter % cfg.valid_freq = 0
           /\ CountAt("valid_draw", trace[k].iter) = 1
    /\ \A i \in 0..(cfg.iterations - 1) :
         (Past(i) /\ pc # "raised") =>
           CountAt("valid_draw", i) = (IF i % cfg.valid_freq = 0 THEN 1 ELSE 0)

\* C3: with a checkpoint manager configured, checkpoint_manager.save is called
\* exactly once on every validation iteration, with that iteration's index as
\* first argument and after the validation step; it is never called on another
\* iteration and never when checkpoint_manager is None.
C3_SaveOnEveryValidation ==
  IsOTFM =>
    /\ ~cfg.checkpoint_manager => saved = <<>>
    /\ Len(saved) = Count("save")
    /\ \A k \in 1..Len(trace) :
         trace[k].op = "save" =>
           /\ k > 1
           /\ trace[k - 1].op = "valid_return"
           /\ trace[k - 1].iter = trace[k].iter
    /\ \A i \in 0..(cfg.iterations - 1) :
         (cfg.checkpoint_manager /\ CountAt("valid_draw", i) = 1 /\ Past(i)) =>
           /\ CountAt("save", i) = 1
           /\ Len(SelectSeq(saved, LAMBDA c : c.step = i)) = 1

\* C4: with a callback function configured, the callback is invoked once
\* after each validation step, in both trainers.
C4_CallbackAfterEachValidation ==
  cfg.callback_fn =>
    /\ Count("callback") = Count("valid_return")
    /\ \A k \in 1..Len(trace) :
         trace[k].op = "valid_return" => k > 1 /\ trace[k - 1].op = "callback"

StochasticOps == {"time", "noise", "resample", "model"}

\* C6: every iteration splits the root key into three distinct keys and
\* replaces the root by the third, the step key is split into distinct noise,
\* time and model keys and the model key into one key per batch element; no
\* key is handed to two stochastic operations, within or across iterations.
C6_NoKeyReuse ==
  /\ \A j, k \in 1..Len(consumed) :
       (j # k /\ consumed[j].op \in StochasticOps
              /\ consumed[k].op \in StochasticOps) =>
         consumed[j].key # consumed[k].key
  /\ \A k \in 1..Len(consumed) :
       consumed[k].op \in StochasticOps => consumed[k].key # rng
  /\ pc \in {"match", "resample", "step"} /\ IsOTFM =>
       /\ Cardinality({rng_resample, rng_step_fn, rng}) = 3
       /\ LET ks == StepKeys(rng_step_fn)
          IN  Cardinality({ks[i] : i \in 1..3}
                \cup {ModelKeys(ks[3], BatchSize)[i] : i \in 1..BatchSize})
              = 3 + BatchSize
  /\ IsOTFM => Len(rng) = 1 + Count("train_draw")

\* two iterations have each consumed a resampling key, a time key, a noise key
\* and BatchSize model keys
C6_Witness ==
  /\ IsOTFM
  /\ Count("resample") >= 2
  /\ Count("grad") >= 2
  /\ Len(consumed) >= 1 + 2 * (3 + BatchSize)

\* an iteration on which the OT solver did not converge
NonConverged(i) == cfg.train_seq[i + 1]

\* C7: whether or not the OT solver converges, match_fn returns the coupling
\* without raising, the iteration goes on with resampling and the gradient
\* step, and the loop completes all `iterations` steps.
C7_NonConvergenceNotFatal ==
  (IsOTFM /\ cfg.ot_solver) =>
    /\ \A i \in 0..(cfg.iterations - 1) :
         (CountAt("match", i) = 1 /\ Past(i)) =>
           CountAt("resample", i) = 1 /\ CountAt("grad", i) = 1
    /\ (Ended /\ \E i \in 0..(cfg.iterations - 1) :
                    NonConverged(i) /\ CountAt("match", i) = 1) =>
         /\ pc = "done"
         /\ Count("grad") = cfg.iterations

\* What does hold for C7: no exception comes from matching, and a match is
\* always followed by the resampling and the gradient step of its iteration,
\* converged or not.
Lemma_MatchNeverRaises ==
  (IsOTFM /\ cfg.ot_solver) =>
    /\ error \in {"none", "AttributeError"}
    /\ \A i \in 0..(cfg.iterations - 1) :
         (CountAt("match", i) = 1 /\ Past(i)) =>
           CountAt("resample", i) = 1 /\ CountAt("grad", i) = 1
    /\ tmat.bound => tmat.converged = ~NonConverged(tmat.pos)

\* C8: save, load and training_logs of OTFlowMatching raise
\* NotImplementedError in every state of the solver and for every argument,
\* never return normally, and leave the model states and the root key
\* unchanged.
C8_UnimplementedFailLoudly ==
  [][(IsOTFM /\ api' # api /\ api'.fn # "none") =>
       /\ api'.outcome = "NotImplementedError"
       /\ SolverState' = SolverState]_vars

\* save has been called on a solver trained for two steps
C8_Witness ==
  /\ IsOTFM
  /\ api.fn = "save"
  /\ api.arg = "ckpt"
  /\ api.outcome = "NotImplementedError"
  /\ Len(state_neural_vector_field.updates) >= 2

\* C9: transport integrates from t0 = 0 to t1 = 1 when forward and from
\* t0 = 1 to t1 = 0 otherwise, starting from the input point in both
\* directions; the direction flag changes nothing but the time bounds.
C9_TransportDirection ==
  /\ \A k \in 1..Len(transports) : \A i \in 1..NumSamples :
       LET r == transports[k].result[i]
       IN  /\ transports[k].forward => r.t0 = 0 /\ r.t1 = 1
           /\ ~transports[k].forward => r.t0 = 1 /\ r.t1 = 0
           /\ r.y0 = transports[k].data[i]
  /\ Len(transports) = 2 =>
       \A i \in 1..NumSamples :
         LET a == transports[1]
             b == transports[2]
         IN  (a.data[i] = b.data[i] /\ a.condition[i] = b.condition[i]) =>
               [a.result[i] EXCEPT !.t0 = b.result[i].t0,
                                   !.t1 = b.result[i].t1] = b.result[i]

\* a batch has been transported forward and then backward by a trained solver
C9_Witness ==
  /\ Len(transports) = 2
  /\ transports[1].forward
  /\ ~transports[2].forward
  /\ transports[2].result[1].t0 = 1
  /\ Len(state_neural_vector_field.updates) >= 1

\* C10: transport returns one terminal state per input sample; the result for
\* sample i depends only on sample i, its condition and the model parameters,
\* so replacing another sample j or its condition leaves result i unchanged;
\* the call does not modify the model state.
C10_TransportPerSample ==
  /\ [](\A k \in 1..Len(transports) :
          /\ Len(transports[k].result) = Len(transports[k].data)
          /\ \A i \in 1..NumSamples :
               transports[k].result[i].params = state_neural_vector_field)
  /\ [](Len(transports) = 2 =>
          \A i \in 1..NumSamples :
            LET a == transports[1]
                b == transports[2]
            IN  (a.forward = b.forward /\ a.data[i] = b.data[i]
                   /\ a.condition[i] = b.condition[i]) =>
                  a.result[i] = b.result[i])
  /\ [][transports' # transports => SolverState' = SolverState]_vars

\* the sample and the condition at one index have been replaced and the same
\* direction has been solved again
C10_Witness ==
  /\ Len(transports) = 2
  /\ transports[1].forward = transports[2].forward
  /\ transports[1].data[1] # transports[2].data[1]
  /\ transports[1].condition[1] # transports[2].condition[1]
  /\ transports[1].data[2] = transports[2].data[2]
  /\ transports[1].result[1] # transports[2].result[1]

\* the value stored under `name` in mapping d, `default` when there is none
Lookup(d, name, default) ==
  IF \E e \in d : e[1] = name
  THEN (CHOOSE v \in {e[2] : e \in d} : <<name, v>> \in d)
  ELSE default

\* C11: a solver, dt0 or stepsize_controller entry of diffeqsolve_kwargs is
\* used in place of the default (Tsit5, None, PIDController(1e-5, 1e-5)) and is
\* not forwarded a second time; every other entry is forwarded unchanged; the
\* caller's mapping is left as it was, so a second call given the same mapping
\* integrates with the same settings.
C11_IntegrationPluggable ==
  /\ \A k \in 1..Len(transports) : \A i \in 1..NumSamples :
       LET c == transports[k]
           r == c.result[i]
       IN  /\ r.solver = Lookup(c.kwargs, "solver", "Tsit5")
           /\ r.dt0 = Lookup(c.kwargs, "dt0", "None")
           /\ r.stepsize_controller =
                Lookup(c.kwargs, "stepsize_controller",
                       "PIDController(1e-5, 1e-5)")
           /\ r.kwargs = {e \in c.kwargs : e[1] \notin PoppedNames}
           /\ c.kwargs_after = c.kwargs
  /\ Len(transports) = 2 =>
       /\ transports[2].kwargs = transports[1].kwargs
       /\ \A i \in 1..NumSamples :
            LET a == transports[1].result[i]
                b == transports[2].result[i]
            IN  /\ a.solver = b.solver
                /\ a.dt0 = b.dt0
                /\ a.stepsize_controller = b.stepsize_controller
                /\ a.kwargs = b.kwargs

\* transport has been called twice with a mapping that names a solver and an
\* entry the integrator takes as it is
C11_Witness ==
  /\ Len(transports) = 2
  /\ <<"solver", "Dopri5">> \in transports[1].kwargs
  /\ <<"max_steps", "16">> \in transports[1].kwargs
  /\ transports[2].result[1].solver = "Dopri5"
  /\ transports[2].result[1].dt0 = "None"
  /\ transports[2].result[1].kwargs = {<<"max_steps", "16">>}

\* C12: for low < high and num_samples >= 1, with and without an offset,
\* every sample t returned by sample_uniformly satisfies low <= t < high.
C12_SamplesInRange ==
  sampler.called =>
    \A k \in 1..Len(sampler.out) :
      sampler.low <= sampler.out[k] /\ sampler.out[k] < sampler.high

\* What does hold for C12: without an offset every sample lies in
\* [low, high); with an offset every sample lies in [0, (high - low) - offset),
\* whatever low is.
Lemma_SamplesInShiftedRange ==
  sampler.called =>
    /\ Len(sampler.out) = sampler.num_samples
    /\ \A k \in 1..Len(sampler.out) :
         IF sampler.offset.none
         THEN sampler.low <= sampler.out[k] /\ sampler.out[k] < sampler.high
         ELSE /\ 0 <= sampler.out[k]
              /\ sampler.out[k] <
                   (sampler.high - sampler.low) - sampler.offset.value

\* sample_uniformly was called with an offset
Stratified == sampler.called /\ ~sampler.offset.none

\* the samples number num_samples and consecutive ones differ by
\* 1 / num_samples modulo `modulus`
GapsModulo(modulus) ==
  /\ Len(sampler.out) = sampler.num_samples
  /\ Len(sampler.bits) = 1
  /\ \A k \in 1..(sampler.num_samples - 1) :
       (sampler.out[k + 1] - sampler.out[k]) % modulus =
         (One \div sampler.num_samples) % modulus

\* C13: with an offset, sample_uniformly returns num_samples samples built
\* from a single random draw plus the offsets k / num_samples, and consecutive
\* samples differ by exactly 1 / num_samples modulo the range high - low.
C13_GapsModuloRange ==
  Stratified => GapsModulo(sampler.high - sampler.low)

\* C13 (amended): with an offset, sample_uniformly returns num_samples samples
\* built from a single random draw plus the offsets k / num_samples, and
\* consecutive samples differ by exactly 1 / num_samples modulo
\* (high - low) - offset, which is the range only when offset = 0.
C13_GapsModuloRangeLessOffset ==
  Stratified =>
    /\ GapsModulo((sampler.high - sampler.low) - sampler.offset.value)
    /\ sampler.offset.value = 0 => GapsModulo(sampler.high - sampler.low)

\* three stratified samples were drawn with a positive offset, and the last
\* one wrapped around the modulus
C13_Witness ==
  /\ Stratified
  /\ sampler.num_samples = 3
  /\ sampler.offset.value > 0
  /\ sampler.out[3] < sampler.out[2]
  /\ sampler.out[2] - sampler.out[1] = One \div 3

\* the operations of iteration i, in the order they were executed
IterOps(i) ==
  LET es == SelectSeq(trace, LAMBDA e : e.iter = i)
  IN  [k \in 1..Len(es) |-> es[k].op]

\* the operations of iteration i in the order of the loop body
BodyOrder(i) ==
  <<"train_draw">>
  \o (IF cfg.ot_solver THEN <<"match", "resample">> ELSE <<>>)
  \o <<"grad">>
  \o (IF learn_rescaling THEN <<"rescale">> ELSE <<>>)
  \o (IF i % cfg.valid_freq = 0
      THEN <<"valid_draw", "valid_return">>
           \o (IF cfg.checkpoint_manager THEN <<"save">> ELSE <<>>)
      ELSE <<>>)

\* C14: within every iteration the operations happen in the order: split keys
\* and draw the batch, match and resample (with an OT solver), one gradient
\* step on the resampled batch, rescaling update (if enabled), validation (if
\* due), checkpoint save (if due and configured); iteration k+1 starts only
\* when iteration k has finished, and without an OT solver the drawn batch
\* reaches the gradient step unchanged.
C14_OperationOrder ==
  IsOTFM =>
    /\ \A k \in 1..(Len(trace) - 1) : trace[k].iter <= trace[k + 1].iter
    /\ \A i \in 0..(cfg.iterations - 1) :
         /\ IsPrefix(IterOps(i), BodyOrder(i))
         /\ (iter > i \/ pc = "done") => IterOps(i) = BodyOrder(i)
    /\ \A k \in 1..Len(trace) : trace[k].iter < cfg.iterations
    /\ \A n \in 1..Len(state_neural_vector_field.updates) :
         LET u == state_neural_vector_field.updates[n]
             drawn == train_next(n - 1)
         IN  IF cfg.ot_solver
             THEN /\ u.batch = resample_data(u.batch.rkey,
                                             match_fn(match_args(drawn)),
                                             drawn)
                  /\ u.batch.rkey # NoKey
             ELSE u.batch = drawn
    /\ pc = "step" =>
         Len(state_neural_vector_field.updates) = iter

\* two iterations with matching, resampling, rescaling and validation have
\* finished and a third has started
C14_Witness ==
  /\ IsOTFM
  /\ cfg.ot_solver
  /\ learn_rescaling
  /\ cfg.valid_freq = 1
  /\ iter = 2
  /\ pc = "match"
  /\ IterOps(1) = <<"train_draw", "match", "resample", "grad", "rescale",
                    "valid_draw", "valid_return">>

\* iteration i has taken its gradient step and control has left the statement
\* at lines 164-167, by completing it or by an exception raised inside it
LeftRescale(i) ==
  /\ CountAt("grad", i) = 1
  /\ iter > i \/ Ended \/ pc \in {"valid", "ckpt"}

\* C15: learn_rescaling is true iff mlp_eta or mlp_xi is configured, and the
\* rescaling update, which replaces state_eta and state_xi, runs on every
\* training iteration when learn_rescaling is true and on none when it is
\* false.
C15_RescalingToggledBySubModels ==
  IsOTFM =>
    /\ learn_rescaling <=> (cfg.mlp_eta \/ cfg.mlp_xi)
    /\ ~learn_rescaling =>
         /\ Count("rescale") = 0
         /\ state_eta = NoState /\ state_xi = NoState
    /\ \A i \in 0..(cfg.iterations - 1) :
         (learn_rescaling /\ LeftRescale(i)) =>
           /\ CountAt("rescale", i) = 1
           /\ cfg.mlp_eta => Len(state_eta.updates) >= i + 1
           /\ cfg.mlp_xi => Len(state_xi.updates) >= i + 1

\* What does hold for C15: with an OT solver configured the rescaling update
\* runs once per iteration exactly when a rescaling sub-model is configured.
Lemma_RescalingWithSolver ==
  (IsOTFM /\ cfg.ot_solver) =>
    /\ ~learn_rescaling => Count("rescale") = 0
    /\ \A i \in 0..(cfg.iterations - 1) :
         (learn_rescaling /\ LeftRescale(i)) =>
           /\ CountAt("rescale", i) = 1
           /\ cfg.mlp_eta => state_eta.updates[i + 1].batch.pos = i
           /\ cfg.mlp_xi => state_xi.updates[i + 1].batch.pos = i

\* C17: whenever the rescaling update runs, its marginals are those of the
\* coupling computed from the training batch of the same iteration, and in
\* every configuration, ot_solver = None with a rescaling sub-model included,
\* a coupling of the current iteration exists when line 165 is reached.
C17_CouplingOfSameIteration ==
  IsOTFM =>
    /\ (pc = "rescale" /\ learn_rescaling) =>
         /\ tmat.bound
         /\ tmat.pos = iter
    /\ error # "UnboundLocalError"
    /\ \A n \in 1..Len(state_eta.updates) :
         state_eta.updates[n].tmat = match_fn(match_args(train_next(n - 1)))
    /\ \A n \in 1..Len(state_xi.updates) :
         state_xi.updates[n].tmat = match_fn(match_args(train_next(n - 1)))

\* What does hold for C17: with an OT solver configured the update always
\* receives the coupling of its own iteration.
Lemma_CouplingWithSolver ==
  (IsOTFM /\ cfg.ot_solver) =>
    /\ (pc = "rescale" /\ learn_rescaling) => tmat.bound /\ tmat.pos = iter
    /\ error # "UnboundLocalError"
    /\ \A n \in 1..Len(state_eta.updates) :
         state_eta.updates[n].tmat = match_fn(match_args(train_next(n - 1)))
    /\ \A n \in 1..Len(state_xi.updates) :
         state_xi.updates[n].tmat = match_fn(match_args(train_next(n - 1)))

\* the rescaling states as they stand, the source of the per-sample weights
\* eta(source) and xi(target)
RescalingWeights == [eta |-> state_eta, xi |-> state_xi]

\* C16: in unbalanced mode the weights produced by the rescaling sub-models
\* on iteration k are an input of the match function on iteration k+1.
C16_WeightsConsumedByNextMatch ==
  (IsOTFM /\ learn_rescaling /\ pc = "resample" /\ iter >= 1) =>
    /\ tmat.bound
    /\ "weights" \in DOMAIN tmat.args
    /\ tmat.args.weights = RescalingWeights

\* C16 (amended): in unbalanced mode every matching call is given exactly two
\* arguments, the source and the target of the batch drawn on its own
\* iteration; the weights produced by the rescaling sub-models are not passed
\* to it.
C16_MatchTakesNoWeights ==
  (IsOTFM /\ learn_rescaling /\ tmat.bound) =>
    /\ DOMAIN tmat.args = {"source", "target"}
    /\ tmat.args.source = tmat.pos
    /\ tmat.args.target = tmat.pos
    /\ pc = "resample" => tmat.pos = iter /\ batch.pos = iter

\* the second iteration has matched its batch after the first iteration
\* updated both rescaling sub-models
C16_Witness ==
  /\ IsOTFM
  /\ cfg.mlp_eta /\ cfg.mlp_xi
  /\ pc = "resample"
  /\ iter = 1
  /\ tmat.pos = 1
  /\ Len(state_eta.updates) = 1
  /\ Len(state_xi.updates) = 1

\* __call__ is at a statement of the loop other than the two that write model
\* state, step_fn (161-163) and unbalancedness_step_fn (164-167)
OutsideTrainingStep == pc \in {"loop", "match", "resample", "valid", "ckpt"}

\* C18: the training step is the only writer of model state: the validation
\* step and the checkpoint save leave state_neural_vector_field, the
\* rescaling states and self.rng unchanged, so the gradient step of iteration
\* k+1 starts from the state the step of iteration k returned, whatever
\* valid_freq is, the two loaders being independent iterators.
C18_TrainingStepSoleWriter ==
  /\ [][(pc \in {"valid", "ckpt"}) =>
          /\ SolverState' = SolverState
          /\ train_pos' = train_pos]_vars
  /\ [][OutsideTrainingStep =>
          /\ state_neural_vector_field' = state_neural_vector_field
          /\ state_eta' = state_eta
          /\ state_xi' = state_xi]_vars
  /\ [][(pc = "step" /\ IsOTFM) =>
          LET old == state_neural_vector_field.updates
              new == state_neural_vector_field'.updates
          IN  /\ Len(old) = iter
              /\ Len(new) = iter + 1
              /\ SubSeq(new, 1, iter) = old]_vars

\* the third gradient step is about to start, two validation steps having run
\* since the first
C18_Witness ==
  /\ IsOTFM
  /\ pc = "step"
  /\ iter = 2
  /\ Count("valid_return") = 2
  /\ valid_pos = 2
  /\ train_pos = 3
  /\ Len(state_neural_vector_field.updates) = 2

\* the checkpoints written on iteration i
SavedAt(i) == SelectSeq(saved, LAMBDA c : c.step = i)

\* C19: every checkpoint written by the loop holds, under
\* "state_neural_vector_field", the state produced by the gradient step of the
\* same iteration, under "state_eta" and "state_xi" the current rescaling
\* states exactly when they exist; building the mapping never fails, with or
\* without rescaling sub-models.
C19_CheckpointCapturesStates ==
  IsOTFM =>
    /\ error # "AttributeError"
    /\ (pc = "ckpt" /\ cfg.checkpoint_manager) => hasattr("state_mlp")
    /\ \A k \in 1..Len(saved) :
         /\ Len(saved[k].state_neural_vector_field.updates) =
              saved[k].step + 1
         /\ saved[k].state_eta.present = cfg.mlp_eta
         /\ saved[k].state_xi.present = cfg.mlp_xi
    /\ \A i \in 0..(cfg.iterations - 1) :
         (cfg.checkpoint_manager /\ i % cfg.valid_freq = 0 /\ iter > i) =>
           Len(SavedAt(i)) = 1

\* What does hold for C19: without a checkpoint manager nothing is written
\* and nothing fails at line 174.
Lemma_NoManagerNoCheckpoint ==
  (IsOTFM /\ ~cfg.checkpoint_manager) =>
    saved = <<>> /\ error # "AttributeError"

====
